---- MODULE Spec2Model ----
(***************************************************************************)
(* The news pipeline of agent_ai_newsum.py: the Streamlit script's session *)
(* state, its button handlers (Check Ollama Connection, Fetch News,        *)
(* Generate AI Summary, Send Email) and the NewsAgent methods they call.   *)
(*                                                                         *)
(* Text is modelled as a sequence of one-character strings, so that        *)
(* str.lower, str.strip, str.startswith and urljoin are computed character *)
(* by character.  The article field 'timestamp' (datetime.now()) is left   *)
(* out of the Article record: nothing below reads it.                      *)
(***************************************************************************)
EXTENDS Integers, Sequences, FiniteSets, TLC

(***************************************************************************)
(* Bounds of the model (sizes of the listing pages the environment serves) *)
(***************************************************************************)
SmallRun == 2
MidRun == 15
LongRun == 22
MaxShift == 1

(***************************************************************************)
(* Program constants                                                       *)
(***************************************************************************)
ScanLimit == 20
MinTitleLen == 20
MaxTitleLen == 200
PerSourceCap == 15
TopN == 10

(***************************************************************************)
(* Characters and Python's str operations                                  *)
(***************************************************************************)
Range(s) == {s[i] : i \in 1..Len(s)}

UpperAlpha == <<"A","B","C","D","E","F","G","H","I","J","K","L","M","N","O","P","Q","R","S","T","U","V","W","X","Y","Z">>
LowerAlpha == <<"a","b","c","d","e","f","g","h","i","j","k","l","m","n","o","p","q","r","s","t","u","v","w","x","y","z">>
Digits == <<"0","1","2","3","4","5","6","7","8","9">>
Whitespace == {" ", "\t", "\n"}

Min(a, b) == IF a < b THEN a ELSE b

\* s[:n]
Take(s, n) == SubSeq(s, 1, Min(n, Len(s)))

\* s[n:]  (n counted from 0 as in Python)
Drop(s, n) == SubSeq(s, n + 1, Len(s))

UpperLetters == Range(UpperAlpha)
LowerLetters == Range(LowerAlpha)

\* the lower-case form of each upper-case letter, and the reverse
LowerOf == [c \in UpperLetters |-> LowerAlpha[CHOOSE i \in 1..26 : UpperAlpha[i] = c]]
UpperOf == [c \in LowerLetters |-> UpperAlpha[CHOOSE i \in 1..26 : LowerAlpha[i] = c]]

LowerChar(c) == IF c \in UpperLetters THEN LowerOf[c] ELSE c

UpperChar(c) == IF c \in LowerLetters THEN UpperOf[c] ELSE c

\* str.lower()
str_lower(s) == [i \in 1..Len(s) |-> LowerChar(s[i])]

\* str.upper(), used to build listing pages only
str_upper(s) == [i \in 1..Len(s) |-> UpperChar(s[i])]

\* str.strip(): leading and trailing whitespace removed
str_strip(s) ==
  IF \A i \in 1..Len(s) : s[i] \in Whitespace THEN <<>>
  ELSE SubSeq(s,
         CHOOSE i \in 1..Len(s) :
           s[i] \notin Whitespace /\ \A j \in 1..(i - 1) : s[j] \in Whitespace,
         CHOOSE i \in 1..Len(s) :
           s[i] \notin Whitespace /\ \A j \in (i + 1)..Len(s) : s[j] \in Whitespace)

\* str.startswith(prefix)
str_startswith(s, prefix) ==
  Len(s) >= Len(prefix) /\ SubSeq(s, 1, Len(prefix)) = prefix

\* str.find(c): index of the first c, counted from 1; 0 when there is none
RECURSIVE FindFrom(_, _, _)
FindFrom(s, c, i) ==
  IF i > Len(s) THEN 0 ELSE IF s[i] = c THEN i ELSE FindFrom(s, c, i + 1)

str_find(s, c) == FindFrom(s, c, 1)

RECURSIVE str_split(_, _)
\* str.split(c), the first c being at i
SplitFrom(s, c, i) ==
  IF i = 0 THEN <<s>>
  ELSE <<SubSeq(s, 1, i - 1)>> \o str_split(Drop(s, i), c)

\* str.split(c)
str_split(s, c) == SplitFrom(s, c, str_find(s, c))

RECURSIVE str_join(_, _)
\* c.join(parts)
str_join(parts, c) ==
  IF parts = <<>> THEN <<>>
  ELSE IF Len(parts) = 1 THEN parts[1]
  ELSE parts[1] \o <<c>> \o str_join(Tail(parts), c)

(***************************************************************************)
(* urllib.parse.urljoin, for references that carry no query, fragment or   *)
(* parameters (no '?', '#', ';'), which is what the listing pages below    *)
(* hold.                                                                   *)
(***************************************************************************)
S_http == <<"h","t","t","p">>
S_https == <<"h","t","t","p","s">>
S_ftp == <<"f","t","p">>
uses_relative == {<<>>, S_http, S_https, S_ftp}
uses_netloc == {<<>>, S_http, S_https, S_ftp}

\* urllib.parse.scheme_chars
scheme_chars == UpperLetters \cup LowerLetters \cup Range(Digits) \cup {"+", "-", "."}

IsSchemeChar(c) == c \in scheme_chars

IsAsciiLetter(c) == c \in UpperLetters \/ c \in LowerLetters

\* urlsplit: the scheme is url[:i] when i is the place of the first ':' and
\* everything before it is a scheme
HasScheme(url, i) ==
  /\ i > 1
  /\ IsAsciiLetter(url[1])
  /\ \A k \in 1..(i - 1) : IsSchemeChar(url[k])

\* urlsplit: the network location and the path of what follows "//"
SplitNetloc(scheme, after, j) ==
  [scheme |-> scheme,
   netloc |-> IF j = 0 THEN after ELSE SubSeq(after, 1, j - 1),
   path |-> IF j = 0 THEN <<>> ELSE Drop(after, j - 1)]

\* urlsplit, once the scheme is taken off
SplitRest(scheme, rest) ==
  IF str_startswith(rest, <<"/", "/">>)
  THEN SplitNetloc(scheme, Drop(rest, 2), str_find(Drop(rest, 2), "/"))
  ELSE [scheme |-> scheme, netloc |-> <<>>, path |-> rest]

SplitAt(url, default_scheme, i) ==
  IF HasScheme(url, i)
  THEN SplitRest(str_lower(SubSeq(url, 1, i - 1)), Drop(url, i))
  ELSE SplitRest(default_scheme, url)

\* urlsplit(url, scheme): [scheme, netloc, path]
urlsplit(url, default_scheme) == SplitAt(url, default_scheme, str_find(url, ":"))

\* urlunsplit: "//" + netloc + path, the path made to start with "/"
WithNetloc(netloc, path) ==
  <<"/", "/">> \o netloc \o (IF path # <<>> /\ path[1] # "/" THEN <<"/">> ELSE <<>>) \o path

WithScheme(scheme, url) == IF scheme # <<>> THEN scheme \o <<":">> \o url ELSE url

\* urlunsplit((scheme, netloc, path, '', ''))
urlunsplit(scheme, netloc, path) ==
  WithScheme(scheme,
    IF netloc # <<>> \/ (scheme \in uses_netloc /\ ~str_startswith(path, <<"/", "/">>))
    THEN WithNetloc(netloc, path)
    ELSE path)

RECURSIVE RemoveDotSegments(_, _)
\* the loop of urljoin over 'segments' that builds 'resolved_path'
RemoveDotSegments(segments, resolved) ==
  IF segments = <<>> THEN resolved
  ELSE IF Head(segments) = <<".", ".">>
  THEN RemoveDotSegments(Tail(segments), Take(resolved, Len(resolved) - 1))
  ELSE IF Head(segments) = <<".">>
  THEN RemoveDotSegments(Tail(segments), resolved)
  ELSE RemoveDotSegments(Tail(segments), Append(resolved, Head(segments)))

NonEmpty(x) == x # <<>>

\* segments[1:-1] = filter(None, segments[1:-1])
FilterMiddle(segments) ==
  IF Len(segments) <= 2 THEN segments
  ELSE <<segments[1]>>
       \o SelectSeq(SubSeq(segments, 2, Len(segments) - 1), NonEmpty)
       \o <<segments[Len(segments)]>>

\* base_parts: bpath.split('/') without its last part, unless that is empty
BaseParts(parts) ==
  IF parts[Len(parts)] # <<>> THEN SubSeq(parts, 1, Len(parts) - 1) ELSE parts

\* segments: of the reference alone when it starts with "/", else after the base's
Segments(bpath, path) ==
  IF path[1] = "/" THEN str_split(path, "/")
  ELSE FilterMiddle(BaseParts(str_split(bpath, "/")) \o str_split(path, "/"))

\* resolved_path, with the '' appended after a last segment '.' or '..'
ResolvedPath(segments, resolved) ==
  IF segments[Len(segments)] \in {<<".">>, <<".", ".">>}
  THEN Append(resolved, <<>>) ELSE resolved

\* '/'.join(resolved_path) or '/'
JoinedOrRoot(joined) == IF joined = <<>> THEN <<"/">> ELSE joined

MergePaths(segments) ==
  JoinedOrRoot(str_join(ResolvedPath(segments, RemoveDotSegments(segments, <<>>)), "/"))

\* urljoin, with both URLs split
JoinSplit(url, b, r) ==
  IF r.scheme # b.scheme \/ r.scheme \notin uses_relative THEN url
  ELSE IF r.scheme \in uses_netloc /\ r.netloc # <<>>
  THEN urlunsplit(r.scheme, r.netloc, r.path)
  ELSE urlunsplit(r.scheme, b.netloc,
                  IF r.path = <<>> THEN b.path ELSE MergePaths(Segments(b.path, r.path)))

JoinBase(url, b) == JoinSplit(url, b, urlsplit(url, b.scheme))

urljoin(base, url) ==
  IF url = <<>> THEN base
  ELSE IF base = <<>> THEN url
  ELSE JoinBase(url, urlsplit(base, <<>>))

(***************************************************************************)
(* NewsAgent.news_sources, in the dict's iteration (insertion) order       *)
(***************************************************************************)
BBC_URL == <<"h","t","t","p","s",":","/","/","w","w","w",".","b","b","c",".","c","o","m","/","n","e","w","s">>
REUTERS_URL == <<"h","t","t","p","s",":","/","/","w","w","w",".","r","e","u","t","e","r","s",".","c","o","m">>
GUARDIAN_URL == <<"h","t","t","p","s",":","/","/","w","w","w",".","t","h","e","g","u","a","r","d","i","a","n",".","c","o","m","/","i","n","t","e","r","n","a","t","i","o","n","a","l">>

news_sources ==
  << [name |-> "BBC", url |-> BBC_URL],
     [name |-> "Reuters", url |-> REUTERS_URL],
     [name |-> "The Guardian", url |-> GUARDIAN_URL] >>

(***************************************************************************)
(* Listing pages the environment serves.  A page is what requests.get and  *)
(* BeautifulSoup make of it: status "error" when the fetch or the parse    *)
(* raises, otherwise the h1..h4 elements in document order, each with its  *)
(* text and the href of its nearest enclosing <a> (has_link FALSE when     *)
(* there is none).                                                         *)
(***************************************************************************)
TitlePrefix == <<"B","r","e","a","k","i","n","g"," ","N","e","w","s"," ","S","t","o","r","y"," ">>
RootHref == <<"/","s","t","o","r","y","/">>
RelHref == <<"s","t","o","r","y","/">>
AbsHref == <<"h","t","t","p","s",":","/","/","c","d","n",".","e","x","a","m","p","l","e",".","o","r","g","/">>
HttpRelHref == <<"h","t","t","p","-","a","r","c","h","i","v","e","/">>
NetlocHref == <<"/","/","m",".","e","x","a","m","p","l","e",".","o","r","g","/">>
DotsHref == <<".",".","/">>

TwoDigits(k) == <<Digits[((k \div 10) % 10) + 1], Digits[(k % 10) + 1]>>

\* The text of the heading of story k: 22 characters, in one of four spellings.
TitleText(k, style) ==
  LET t == TitlePrefix \o TwoDigits(k)
  IN CASE style = "title" -> t
       [] style = "upper" -> str_upper(t)
       [] style = "lower" -> str_lower(t)
       [] style = "padded" -> <<" ", "\n">> \o t \o <<"\t", " ">>

Href(kind, k) ==
  CASE kind = "root" -> RootHref \o TwoDigits(k)
    [] kind = "rel" -> RelHref \o TwoDigits(k)
    [] kind = "abs" -> AbsHref \o TwoDigits(k)
    [] kind = "httprel" -> HttpRelHref \o TwoDigits(k)
    [] kind = "netloc" -> NetlocHref \o TwoDigits(k)
    [] kind = "dots" -> DotsHref \o TwoDigits(k)
    [] OTHER -> <<>>

Heading(k, style, kind) ==
  [text |-> TitleText(k, style), has_link |-> kind # "none", href |-> Href(kind, k)]

FailedPage == [status |-> "error", headings |-> <<>>]

\* a page whose only headings are section names, too short to be titles
MenuPage ==
  [status |-> "ok",
   headings |-> << [text |-> <<"W","o","r","l","d">>, has_link |-> TRUE,
                    href |-> <<"/","w","o","r","l","d">>],
                   [text |-> <<" ","S","p","o","r","t"," ">>, has_link |-> FALSE,
                    href |-> <<>>] >>]

\* n headings, of the stories start .. start+n-1
RunPage(start, n, style, kind) ==
  [status |-> "ok", headings |-> [i \in 1..n |-> Heading(start + i - 1, style, kind)]]

\* A heading text of exactly n characters, none of them whitespace.
SizedText(k, n) ==
  [i \in 1..n |-> IF i <= 2 THEN TwoDigits(k)[i] ELSE LowerAlpha[((i + k) % 26) + 1]]

SizedHeading(k, n, pad) ==
  [text |-> pad \o SizedText(k, n) \o pad, has_link |-> TRUE, href |-> Href("root", k)]

\* headings whose stripped text is as long as the limits of line 57, one less
\* and one more, bare and inside surrounding whitespace
EdgePage ==
  [status |-> "ok",
   headings |-> << SizedHeading(1, MinTitleLen, <<>>),
                   SizedHeading(2, MinTitleLen + 1, <<>>),
                   SizedHeading(3, MinTitleLen - 1, <<" ", "\n">>),
                   SizedHeading(4, MaxTitleLen - 1, <<>>),
                   SizedHeading(5, MaxTitleLen, <<>>),
                   SizedHeading(6, MaxTitleLen - 1, <<"\t">>),
                   SizedHeading(7, MinTitleLen + 1, <<" ">>) >>]

\* nshort section names followed by the headings of the stories 1 .. nstories
MixedPage(nshort, nstories) ==
  [status |-> "ok",
   headings |-> [i \in 1..(nshort + nstories) |->
                   IF i <= nshort THEN MenuPage.headings[1]
                   ELSE Heading(i - nshort, "title", "root")]]

(***************************************************************************)
(* NewsAgent.scrape_news                                                   *)
(***************************************************************************)
\* the test of line 57 with the limits themselves let through
AcceptedLength_Inclusive(text) == Len(text) >= MinTitleLen /\ Len(text) <= MaxTitleLen

\* the test of line 57 on the stripped text
AcceptedLength(text) == Len(text) > MinTitleLen /\ Len(text) < MaxTitleLen

\* line 59: link['href'] if link and link.get('href') else ""
LinkHref(h) == IF h.has_link /\ h.href # <<>> THEN h.href ELSE <<>>

\* lines 61-64: "Make relative URLs absolute"
ResolveLink(url, url_link) ==
  IF url_link # <<>> /\ ~str_startswith(url_link, S_http)
  THEN urljoin(url, url_link)
  ELSE url_link

\* lines 66-71
Article(text, url_link, source_name) ==
  [title |-> text, url |-> url_link, source |-> source_name]

\* lines 56-71: one pass of the loop body, 'text' being the stripped text
ScrapeHeadline(headline, text, url, source_name, articles) ==
  IF AcceptedLength(text)
  THEN Append(articles, Article(text, ResolveLink(url, LinkHref(headline)), source_name))
  ELSE articles

RECURSIVE ScrapeLoop(_, _, _, _)
\* the for loop of lines 55-71 over 'headlines', appending to 'articles'
ScrapeLoop(headlines, url, source_name, articles) ==
  IF headlines = <<>> THEN articles
  ELSE ScrapeLoop(Tail(headlines), url, source_name,
         ScrapeHeadline(Head(headlines), str_strip(Head(headlines).text),
                        url, source_name, articles))

scrape_news(url, source_name, page) ==
  IF page.status = "error" THEN <<>>
  ELSE Take(ScrapeLoop(Take(page.headings, ScanLimit), url, source_name, <<>>),
            PerSourceCap)

(***************************************************************************)
(* The Fetch News handler's duplicate removal (lines 208-217)              *)
(***************************************************************************)
\* Mutant of DedupStep: the titles compared as spelled, not lower-cased.
DedupStep_CaseSensitive(article, title_lower, acc) ==
  IF article.title \notin acc.seen
  THEN [unique |-> Append(acc.unique, article), seen |-> acc.seen \cup {article.title}]
  ELSE acc

\* lines 212-215: one pass of the loop body; [unique, seen]
DedupStep(article, title_lower, acc) ==
  IF title_lower \notin acc.seen
  THEN [unique |-> Append(acc.unique, article), seen |-> acc.seen \cup {title_lower}]
  ELSE acc

RECURSIVE DedupLoop(_, _)
DedupLoop(articles, acc) ==
  IF articles = <<>> THEN acc.unique
  ELSE DedupLoop(Tail(articles),
                 DedupStep(Head(articles), str_lower(Head(articles).title), acc))

\* Mutant of Deduplicate: the pool cut to ten before the duplicates are removed.
Deduplicate_TruncateFirst(all) ==
  DedupLoop(Take(all, TopN), [unique |-> <<>>, seen |-> {}])

Deduplicate(all) == Take(DedupLoop(all, [unique |-> <<>>, seen |-> {}]), TopN)

RECURSIVE ScrapeSources(_, _, _)
\* lines 198-206: every source scraped in turn, the results concatenated
ScrapeSources(web, idx, all) ==
  IF idx > Len(news_sources) THEN all
  ELSE ScrapeSources(web, idx + 1,
         all \o scrape_news(news_sources[idx].url, news_sources[idx].name, web[idx]))

ScrapeAll(web) == ScrapeSources(web, 1, <<>>)

(***************************************************************************)
(* Python's try/except: a body either returns a value or raises            *)
(***************************************************************************)
Return(v) == [exc |-> "", msg |-> "", value |-> v]
Raise(class, message) == [exc |-> class, msg |-> message, value |-> ""]

\* the exception classes the two methods can meet, all subclasses of Exception
ExceptionClasses ==
  {"ConnectionError", "ReadTimeout", "JSONDecodeError", "KeyError",
   "ConnectionRefusedError", "SMTPNotSupportedError", "SMTPAuthenticationError",
   "SMTPRecipientsRefused", "SMTPServerDisconnected"}

\* Mutant of ExceptException: only the requests library's errors are caught.
ExceptException_RequestsOnly(class) == class \in {"ConnectionError", "ReadTimeout"}

\* "except Exception as e"
ExceptException(class) == class \in ExceptionClasses

(***************************************************************************)
(* NewsAgent.check_ollama_connection and NewsAgent.summarize_with_ollama   *)
(***************************************************************************)
\* What GET {base}/api/tags can come to.
Probes ==
  { [kind |-> "http", status |-> 200],
    [kind |-> "http", status |-> 404],
    [kind |-> "connection_error", status |-> 0] }

check_ollama_connection(probe) ==
  IF probe.kind = "http" THEN probe.status = 200 ELSE FALSE

\* What POST {base}/api/generate can come to.
OllamaReply(kind, status, json, has_response, response) ==
  [kind |-> kind, status |-> status, json |-> json,
   has_response |-> has_response, response |-> response]

OllamaReplies ==
  { OllamaReply("connection_error", 0, FALSE, FALSE, ""),
    OllamaReply("timeout", 0, FALSE, FALSE, ""),
    OllamaReply("http", 500, TRUE, FALSE, ""),
    OllamaReply("http", 200, FALSE, FALSE, ""),
    OllamaReply("http", 200, TRUE, FALSE, ""),
    OllamaReply("http", 200, TRUE, TRUE, "Top stories today"),
    OllamaReply("http", 200, TRUE, TRUE, "") }

\* lines 99-112: the body of the try block, from the POST on
summarize_body(reply) ==
  IF reply.kind = "connection_error" THEN Raise("ConnectionError", "Connection refused")
  ELSE IF reply.kind = "timeout" THEN Raise("ReadTimeout", "Read timed out")
  ELSE IF reply.status = 200
       THEN IF ~reply.json THEN Raise("JSONDecodeError", "Expecting value")
            ELSE IF ~reply.has_response THEN Raise("KeyError", "'response'")
            ELSE Return(reply.response)
       ELSE Return("Error: Unable to generate summary (Status: "
                   \o ToString(reply.status) \o ")")

\* [raised, value, requests]: whether an exception leaves the method, the text
\* returned, and the requests sent to the completion endpoint
summarize_with_ollama(base_url, articles, reply) ==
  LET r == summarize_body(reply)
      requests == <<[method |-> "POST", url |-> base_url \o "/api/generate"]>>
  IN IF r.exc = ""
     THEN [raised |-> FALSE, value |-> r.value, requests |-> requests]
     ELSE IF ExceptException(r.exc)
     THEN [raised |-> FALSE, value |-> "Error summarizing with Ollama: " \o r.msg,
           requests |-> requests]
     ELSE [raised |-> TRUE, value |-> "", requests |-> requests]

(***************************************************************************)
(* NewsAgent.send_email                                                    *)
(***************************************************************************)
\* lines 129-133, in order
SMTPSteps == <<"connect", "starttls", "login", "send_message", "quit">>

\* How the relay behaves: the step that fails (if any) and how.  A step the
\* relay rejects leaves the connection up; a lost connection is closed by
\* smtplib itself.
RelayBehaviours ==
  {[fail_at |-> "none", how |-> "-"], [fail_at |-> "connect", how |-> "refused"],
   [fail_at |-> "quit", how |-> "disconnected"]}
  \cup {[fail_at |-> st, how |-> h] :
          st \in {"starttls", "login", "send_message"}, h \in {"rejected", "disconnected"}}

StepIndex(step) == CHOOSE i \in 1..Len(SMTPSteps) : SMTPSteps[i] = step

RelayError(relay) ==
  CASE relay.fail_at = "connect" -> "ConnectionRefusedError"
    [] relay.how = "disconnected" -> "SMTPServerDisconnected"
    [] relay.fail_at = "starttls" -> "SMTPNotSupportedError"
    [] relay.fail_at = "login" -> "SMTPAuthenticationError"
    [] OTHER -> "SMTPRecipientsRefused"

\* Mutant of SMTPTrace: a failed delivery is tried a second time.
SMTPTrace_Retry(relay) ==
  IF relay.fail_at = "none" THEN SMTPSteps
  ELSE Take(SMTPSteps, StepIndex(relay.fail_at)) \o Take(SMTPSteps, StepIndex(relay.fail_at))

\* the calls made on the relay: every step up to and including the failing one
SMTPTrace(relay) ==
  IF relay.fail_at = "none" THEN SMTPSteps
  ELSE Take(SMTPSteps, StepIndex(relay.fail_at))

\* Mutant of send_email_body: a failing server.quit() is passed over.
send_email_body_QuitIgnored(relay) ==
  IF relay.fail_at \in {"none", "quit"} THEN Return(TRUE)
  ELSE Raise(RelayError(relay), relay.fail_at)

\* lines 122-135: the body of the try block
send_email_body(relay) ==
  IF relay.fail_at = "none" THEN Return(TRUE)
  ELSE Raise(RelayError(relay), relay.fail_at)

\* whether the session with the relay is still open when the method is left:
\* it was opened, server.quit() was not called, and the peer did not drop it
SessionLeftOpen(relay) ==
  /\ relay.fail_at # "connect"
  /\ "quit" \notin Range(SMTPTrace(relay))
  /\ relay.how # "disconnected"

\* [raised, value, smtp, session_open]
send_email(relay) ==
  LET r == send_email_body(relay)
  IN IF r.exc = ""
     THEN [raised |-> FALSE, value |-> TRUE, smtp |-> SMTPTrace(relay),
           session_open |-> SessionLeftOpen(relay)]
     ELSE IF ExceptException(r.exc)
     THEN [raised |-> FALSE, value |-> FALSE, smtp |-> SMTPTrace(relay),
           session_open |-> SessionLeftOpen(relay)]
     ELSE [raised |-> TRUE, value |-> FALSE, smtp |-> SMTPTrace(relay),
           session_open |-> SessionLeftOpen(relay)]

(***************************************************************************)
(* State                                                                   *)
(***************************************************************************)
VARIABLES
  news_data,          \* st.session_state.news_data
  ollama_available,   \* st.session_state.ollama_available
  summary,            \* st.session_state.summary; present FALSE: the key is not set
  ollama_url,         \* the sidebar's "Ollama URL" text input
  sender_email,       \* the sidebar's "Sender Email" text input
  sender_password,    \* the sidebar's "Email Password/App Password" text input
  recipient_email,    \* the sidebar's "Recipient Email" text input
  all_articles,       \* history: the handler-local all_articles of the latest fetch
  pages,              \* history: the listing pages the latest fetch was served
  verified_url,       \* history: the URL probed by the check that set the flag; "" if unset
  summary_src,        \* history: the articles the held summary was generated from
  fetched_nonempty,   \* history: some Fetch News stored a non-empty article set
  last                \* history: what the latest script run did and met

vars == <<news_data, ollama_available, summary, ollama_url, sender_email,
          sender_password, recipient_email, all_articles, pages, verified_url,
          summary_src, fetched_nonempty, last>>

NoSummary == [present |-> FALSE, text |-> ""]

\* line 150: the default URL, and another one the operator may type
DefaultOllamaUrl == "http://localhost:11434"
OllamaUrls == {DefaultOllamaUrl, "http://10.0.0.2:11434"}

\* what the operator may type into the three email inputs
EmailSettings ==
  { <<"", "", "">>, <<"", "app-password", "reader@example.org">>,
    <<"agent@example.org", "", "reader@example.org">>,
    <<"agent@example.org", "app-password", "">>,
    <<"agent@example.org", "app-password", "reader@example.org">> }

\* A script run that calls nothing.
NoCall ==
  [op |-> "none", outcome |-> "-", http |-> <<>>, raised |-> FALSE,
   reply |-> OllamaReply("-", 0, FALSE, FALSE, ""), text |-> "",
   relay |-> [fail_at |-> "-", how |-> "-"], smtp |-> <<>>, sent |-> FALSE,
   session_open |-> FALSE, mail_body |-> "", mail_to |-> ""]

Ran(op, outcome) == [NoCall EXCEPT !.op = op, !.outcome = outcome]

\* lines 18-21, and the widgets' defaults
Init ==
  /\ news_data = <<>>
  /\ ollama_available = FALSE
  /\ summary = NoSummary
  /\ ollama_url = DefaultOllamaUrl
  /\ sender_email = ""
  /\ sender_password = ""
  /\ recipient_email = ""
  /\ all_articles = <<>>
  /\ pages = <<>>
  /\ verified_url = ""
  /\ summary_src = <<>>
  /\ fetched_nonempty = FALSE
  /\ last = NoCall

(***************************************************************************)
(* The sidebar                                                             *)
(***************************************************************************)
\* The operator edits the "Ollama URL" input: the script reruns, no button is down.
EditOllamaUrl ==
  /\ \E u \in OllamaUrls \ {ollama_url} : ollama_url' = u
  /\ last' = Ran("edit_url", "done")
  /\ UNCHANGED <<news_data, ollama_available, verified_url, summary, sender_email,
                   sender_password,
                 recipient_email, all_articles, pages, summary_src, fetched_nonempty>>

\* The operator edits the email inputs.
EditEmailSettings ==
  /\ \E e \in EmailSettings \ {<<sender_email, sender_password, recipient_email>>} :
       /\ sender_email' = e[1]
       /\ sender_password' = e[2]
       /\ recipient_email' = e[3]
  /\ last' = Ran("edit_email", "done")
  /\ UNCHANGED <<news_data, ollama_available, verified_url, summary, ollama_url,
                   all_articles, pages,
                 summary_src, fetched_nonempty>>

\* lines 154-161
CheckOllamaConnection ==
  /\ \E probe \in Probes :
       /\ ollama_available' = check_ollama_connection(probe)
       /\ verified_url' = IF check_ollama_connection(probe) THEN ollama_url ELSE ""
       /\ last' = [Ran("check", "done") EXCEPT
                     !.http = <<[method |-> "GET", url |-> ollama_url \o "/api/tags"]>>]
  /\ UNCHANGED <<news_data, summary, ollama_url, sender_email, sender_password,
                 recipient_email, all_articles, pages, summary_src, fetched_nonempty>>

\* lines 179-180
SaveConfiguration ==
  /\ last' = Ran("save", "done")
  /\ UNCHANGED <<news_data, ollama_available, verified_url, summary, ollama_url,
                   sender_email,
                 sender_password, recipient_email, all_articles, pages, summary_src,
                 fetched_nonempty>>

(***************************************************************************)
(* Tab 1: Fetch News (lines 194-218)                                       *)
(***************************************************************************)
\* lines 208-217, 'all' being the handler's all_articles
StoreNews(all) ==
  /\ all_articles' = all
  /\ news_data' = Deduplicate(all)
  /\ fetched_nonempty' = (fetched_nonempty \/ news_data' # <<>>)

FetchNews(Web) ==
  /\ \E web \in Web : pages' = web /\ StoreNews(ScrapeAll(web))
  /\ last' = Ran("fetch", "done")
  /\ UNCHANGED <<ollama_available, verified_url, summary, ollama_url, sender_email,
                   sender_password,
                 recipient_email, summary_src>>

(***************************************************************************)
(* Tab 2: Generate AI Summary (lines 234-249)                              *)
(***************************************************************************)
\* line 234: the two buttons are drawn only when there is news
ButtonsShown(articles) == articles # <<>>

\* Mutant of OllamaVerified: the flag is not consulted.
OllamaVerified_Unchecked(available) == TRUE

\* line 241
OllamaVerified(available) == available

GenerateAISummary ==
  /\ IF ~ButtonsShown(news_data)
     THEN /\ last' = Ran("generate", "refused_no_news")
          /\ UNCHANGED <<summary, summary_src>>
     ELSE IF ~OllamaVerified(ollama_available)
     THEN /\ last' = Ran("generate", "refused_unverified")
          /\ UNCHANGED <<summary, summary_src>>
     ELSE \E reply \in OllamaReplies :
            LET r == summarize_with_ollama(ollama_url, news_data, reply)
            IN /\ last' = [Ran("generate", "called") EXCEPT
                             !.http = r.requests, !.reply = reply,
                             !.text = r.value, !.raised = r.raised]
               /\ IF r.raised
                  THEN UNCHANGED <<summary, summary_src>>
                  ELSE /\ summary' = [present |-> TRUE, text |-> r.value]
                       /\ summary_src' = news_data
  /\ UNCHANGED <<news_data, ollama_available, verified_url, ollama_url, sender_email,
                   sender_password,
                 recipient_email, all_articles, pages, fetched_nonempty>>

(***************************************************************************)
(* Tab 2: Send Email (lines 252-274)                                       *)
(***************************************************************************)
\* Mutant of CredentialsComplete: any() in place of all().
CredentialsComplete_Any(sender, password, recipient) ==
  sender # "" \/ password # "" \/ recipient # ""

\* line 253: all([sender_email, sender_password, recipient_email])
CredentialsComplete(sender, password, recipient) ==
  sender # "" /\ password # "" /\ recipient # ""

\* line 255: 'summary' in st.session_state
SummaryExists(s) == s.present

SendEmail ==
  /\ IF ~ButtonsShown(news_data)
     THEN last' = Ran("send", "refused_no_news")
     ELSE IF ~CredentialsComplete(sender_email, sender_password, recipient_email)
     THEN last' = Ran("send", "refused_credentials")
     ELSE IF ~SummaryExists(summary)
     THEN last' = Ran("send", "refused_no_summary")
     ELSE \E relay \in RelayBehaviours :
            LET r == send_email(relay)
            IN last' = [Ran("send", "called") EXCEPT
                          !.relay = relay, !.smtp = r.smtp, !.sent = r.value,
                          !.raised = r.raised, !.session_open = r.session_open,
                          !.mail_body = summary.text, !.mail_to = recipient_email]
  /\ UNCHANGED <<news_data, ollama_available, verified_url, summary, ollama_url,
                   sender_email,
                 sender_password, recipient_email, all_articles, pages, summary_src,
                 fetched_nonempty>>

(***************************************************************************)
(* The listing pages of each specification                                 *)
(***************************************************************************)
Webs(bbc, reuters, guardian) ==
  {<<a, b, c>> : a \in bbc, b \in reuters, c \in guardian}

\* The pipeline: few, short pages, two of which carry one story in two spellings.
SmallWeb ==
  Webs({FailedPage, RunPage(1, SmallRun, "title", "root")},
       {FailedPage, RunPage(2, SmallRun, "upper", "httprel")},
       {FailedPage, MenuPage})

\* The fetch alone.  Short pages in every spelling of the titles and with every
\* kind of link, any of which may fail to load ...
ShortWebs ==
  Webs({FailedPage, RunPage(1, SmallRun, "title", "root"),
        RunPage(1, SmallRun, "padded", "none"), RunPage(2, SmallRun, "title", "rel"),
        RunPage(1, SmallRun, "upper", "abs")},
       {FailedPage, RunPage(1, SmallRun, "lower", "httprel"),
        RunPage(2, SmallRun, "upper", "rel"), RunPage(3, SmallRun, "upper", "netloc"),
        RunPage(1, SmallRun, "title", "dots")},
       {FailedPage, RunPage(1, SmallRun, "title", "netloc"),
        RunPage(3, SmallRun, "lower", "abs"), RunPage(2, SmallRun, "upper", "dots")})

\* ... and long pages: more candidates than are kept, more headings than are
\* scanned, the same stories spelled differently by two sources.
LongWebs ==
  {<<RunPage(1, MidRun, "title", "root"), RunPage(TopN + sh, MidRun, "upper", "rel"),
     RunPage(2 * TopN + 6, MidRun, "lower", "abs")>> : sh \in 1..(1 + MaxShift)}
  \cup {<<RunPage(1, SmallRun, "title", "root"), RunPage(1, n, "upper", "httprel"),
          FailedPage>> : n \in {MidRun, LongRun}}
  \cup {<<RunPage(1, LongRun, "lower", "rel"), FailedPage,
          RunPage(sh, SmallRun, "upper", "none")>> : sh \in 1..(1 + MaxShift)}
  \cup {<<FailedPage, RunPage(1, TopN - 1, "upper", "dots"),
          RunPage(TopN - 1, SmallRun + 1, "title", "abs")>>}

\* Pages at the limits: titles exactly as long as the length limits allow and
\* refuse, and stories that lie partly beyond the headings that are scanned.
EdgeWebs ==
  {<<EdgePage, MixedPage(ScanLimit - PerSourceCap + 1, PerSourceCap + 1), FailedPage>>,
   <<MixedPage(SmallRun + 1, ScanLimit - 1), FailedPage, EdgePage>>}

BigWeb == ShortWebs \cup LongWebs \cup EdgeWebs

(***************************************************************************)
(* Specifications                                                          *)
(***************************************************************************)
Next ==
  \/ EditOllamaUrl
  \/ EditEmailSettings
  \/ CheckOllamaConnection
  \/ SaveConfiguration
  \/ FetchNews(SmallWeb)
  \/ GenerateAISummary
  \/ SendEmail

Spec == Init /\ [][Next]_vars

NextFetch == FetchNews(BigWeb)

SpecFetch == Init /\ [][NextFetch]_vars

(***************************************************************************)
(* Properties                                                              *)
(***************************************************************************)
LowerTitles(articles) == {str_lower(articles[i].title) : i \in 1..Len(articles)}

\* Two articles of the pool carry the same title in different spellings.
CaseDifferentDuplicates(articles) ==
  \E i, j \in 1..Len(articles) :
    /\ i < j
    /\ articles[i].title # articles[j].title
    /\ str_lower(articles[i].title) = str_lower(articles[j].title)

\* A script run that called NewsAgent.summarize_with_ollama / NewsAgent.send_email.
SummarizerCalled(run) == run.op = "generate" /\ run.outcome = "called"
NotifierCalled(run) == run.op = "send" /\ run.outcome = "called"

\* C1: whenever a summary is held, it was generated from exactly the article
\* set now held (a fetch would have to discard or replace the summary).
C1_SummaryOfCurrentArticles == summary.present => summary_src = news_data

\* C2: the held article set has at most 10 articles, and no two of them have
\* titles that are equal once lower-cased.
C2_AtMostTenDistinctTitles ==
  /\ Len(news_data) <= 10
  /\ \A i, j \in 1..Len(news_data) :
       i # j => str_lower(news_data[i].title) # str_lower(news_data[j].title)

\* C2 witness: a fetch whose pool held more than ten candidates, two of them the
\* same title in different spellings, left exactly ten articles.
C2_Witness ==
  /\ Len(news_data) = 10
  /\ Len(all_articles) > 10
  /\ CaseDifferentDuplicates(all_articles)

\* The places of the pool that hold the first occurrence of their lower-cased title.
FirstOccurrences(pool) ==
  {i \in 1..Len(pool) :
     \A j \in 1..(i - 1) : str_lower(pool[j].title) # str_lower(pool[i].title)}

\* The k-th smallest member of a set of numbers.
Kth(S, k) == CHOOSE i \in S : Cardinality({j \in S : j < i}) = k - 1

\* C3: the stored set is the pool's first occurrences of each lower-cased title,
\* in pool order, cut to the first 10; its length is min(10, number of distinct
\* lower-cased titles of the pool).
C3_FirstOccurrencesInOrder ==
  /\ Len(news_data) = Min(10, Cardinality(LowerTitles(all_articles)))
  /\ \A k \in 1..Len(news_data) :
       news_data[k] = all_articles[Kth(FirstOccurrences(all_articles), k)]

\* C3 witness: three sources with 15 candidates each, 5 titles repeated in another
\* spelling, 40 distinct titles, 10 articles stored.
C3_Witness ==
  /\ Len(all_articles) = 45
  /\ \A src \in {"BBC", "Reuters", "The Guardian"} :
       Cardinality({i \in 1..45 : all_articles[i].source = src}) = 15
  /\ Cardinality(LowerTitles(all_articles)) = 40
  /\ CaseDifferentDuplicates(all_articles)
  /\ Len(news_data) = 10

\* C4: a Generate AI Summary attempt made with no articles, or with the endpoint
\* not verified, calls nothing, sends no request and leaves the summary as it was.
C4_RefusedGenerateChangesNothing ==
  [][ (last'.op = "generate" /\ (news_data = <<>> \/ ~ollama_available))
        => /\ last'.outcome # "called"
           /\ last'.http = <<>>
           /\ summary' = summary ]_vars

\* C4 witness: a refused attempt, made while a summary was held.
C4_Witness ==
  /\ last.op = "generate"
  /\ last.outcome = "refused_unverified"
  /\ news_data # <<>>
  /\ summary.present

\* C5: the Notifier is called only with all three credentials non-empty and a
\* summary held, which some Generate AI Summary made from a non-empty article set
\* that some Fetch News stored; an attempt lacking any of these opens no session.
C5_NotifierOnlyWhenReady ==
  last.op = "send" =>
    /\ last.smtp # <<>> =>
         /\ sender_email # "" /\ sender_password # "" /\ recipient_email # ""
         /\ summary.present
         /\ summary_src # <<>>
         /\ fetched_nonempty
    /\ (sender_email = "" \/ sender_password = "" \/ recipient_email = ""
          \/ ~summary.present) =>
         /\ last.outcome # "called"
         /\ last.smtp = <<>>

\* C5 witness: the Notifier was called and opened a session.
C5_Witness == NotifierCalled(last) /\ last.smtp # <<>> /\ last.mail_body = summary.text

\* the delivery attempts of a script run: the connections made to the relay
DeliveryAttempts(run) ==
  Cardinality({i \in 1..Len(run.smtp) : run.smtp[i] = "connect"})

\* C6: a Send Email that fails changes neither the articles nor the summary, makes
\* exactly one delivery attempt, and leaves Send Email able to call the Notifier
\* again, with the same summary.
C6_FailedSendKeepsState ==
  [][ (NotifierCalled(last') /\ ~last'.sent)
        => /\ news_data' = news_data
           /\ summary' = summary
           /\ DeliveryAttempts(last') = 1
           /\ news_data' # <<>>
           /\ sender_email' # "" /\ sender_password' # "" /\ recipient_email' # ""
           /\ summary'.present
           /\ summary'.text = last'.mail_body ]_vars

\* C6 witness: a delivery that failed after the connection was made.
C6_Witness ==
  /\ NotifierCalled(last)
  /\ ~last.sent
  /\ last.relay.fail_at = "send_message"

\* C7: when the Notifier returns, the session it opened with the relay is closed.
C7_SessionClosedOnReturn == NotifierCalled(last) => ~last.session_open

\* a URL with a scheme
IsAbsoluteUrl(url) == HasScheme(url, str_find(url, ":"))

\* C8: every article's url is empty or absolute.
C8_UrlEmptyOrAbsolute ==
  \A i \in 1..Len(all_articles) :
    all_articles[i].url = <<>> \/ IsAbsoluteUrl(all_articles[i].url)

\* C9: the Summarizer client never raises; a 200 reply with a 'response' field gives
\* that field as it is, any other outcome a non-empty text; the text is stored as
\* the summary either way.
C9_SummarizerAlwaysReturnsText ==
  SummarizerCalled(last) =>
    /\ ~last.raised
    /\ summary = [present |-> TRUE, text |-> last.text]
    /\ IF last.reply.kind = "http" /\ last.reply.status = 200
          /\ last.reply.json /\ last.reply.has_response
       THEN last.text = last.reply.response
       ELSE last.text # ""

\* C9 witness: a 200 reply whose JSON body has no 'response' field.
C9_Witness ==
  /\ SummarizerCalled(last)
  /\ last.reply.kind = "http" /\ last.reply.status = 200
  /\ last.reply.json /\ ~last.reply.has_response
  /\ summary.present /\ summary.text = last.text

\* C10: the Notifier never raises, and returns true exactly when connect, STARTTLS,
\* login, transmission and quit all went through.
C10_NotifierTrueIffAllSteps ==
  NotifierCalled(last) =>
    /\ ~last.raised
    /\ last.sent <=> last.relay.fail_at = "none"
    /\ last.sent => last.smtp = SMTPSteps

\* C10 witness: the relay rejected the login.
C10_Witness ==
  /\ NotifierCalled(last)
  /\ last.relay = [fail_at |-> "login", how |-> "rejected"]
  /\ ~last.sent

\* the positions of all_articles that hold the articles of source idx
FromSource(idx) ==
  {i \in 1..Len(all_articles) : all_articles[i].source = news_sources[idx].name}

\* the positions, among the first 20 headings of a page, of the headings whose
\* trimmed text is longer than 20 and shorter than 200 characters
AcceptedHeadings(page) ==
  {i \in 1..Min(20, Len(page.headings)) :
     /\ Len(str_strip(page.headings[i].text)) > 20
     /\ Len(str_strip(page.headings[i].text)) < 200}

KeptCount(page) == IF page.status = "error" THEN 0 ELSE Min(15, Cardinality(AcceptedHeadings(page)))

\* C11: the articles the Fetcher returns for a listing page are the first at
\* most 15 headings, in document order, among the first 20 headings of the page,
\* whose trimmed text is longer than 20 and shorter than 200 characters, each
\* with its trimmed text as title; a page that failed to load gives none.
C11_FetcherKeepsFirstAcceptedHeadings ==
  \A idx \in 1..Len(pages) :
    /\ Cardinality(FromSource(idx)) = KeptCount(pages[idx])
    /\ \A k \in 1..KeptCount(pages[idx]) :
         all_articles[Kth(FromSource(idx), k)].title =
           str_strip(pages[idx].headings[Kth(AcceptedHeadings(pages[idx]), k)].text)
    /\ \A i \in FromSource(idx) :
         /\ Len(all_articles[i].title) > 20
         /\ Len(all_articles[i].title) < 200
         /\ \A j \in 1..Len(all_articles) :
              (j < i) => all_articles[j].source \in {news_sources[n].name : n \in 1..idx}

TitlesFrom(idx) == {all_articles[i].title : i \in FromSource(idx)}

StrippedLength(page, i) == Len(str_strip(page.headings[i].text))

\* C11 witness: one page has a 199-character title that was kept beside
\* 20-character and 200-character texts that were not, another has fewer than
\* 15 articles because its later stories lie beyond the 20th heading, and a
\* third failed to load.
C11_Witness ==
  /\ Len(pages) > 0
  /\ \E idx \in 1..Len(pages) :
       /\ \E i \in 1..Len(pages[idx].headings) :
            /\ StrippedLength(pages[idx], i) = 199
            /\ str_strip(pages[idx].headings[i].text) \in TitlesFrom(idx)
       /\ \E i \in 1..Len(pages[idx].headings) :
            /\ StrippedLength(pages[idx], i) = 200
            /\ str_strip(pages[idx].headings[i].text) \notin TitlesFrom(idx)
       /\ \E i \in 1..Len(pages[idx].headings) :
            /\ StrippedLength(pages[idx], i) = 20
            /\ str_strip(pages[idx].headings[i].text) \notin TitlesFrom(idx)
  /\ \E idx \in 1..Len(pages) :
       /\ Len(pages[idx].headings) > 20
       /\ StrippedLength(pages[idx], 21) > 20
       /\ Cardinality(FromSource(idx)) \in 1..14
  /\ \E idx \in 1..Len(pages) : pages[idx].status = "error" /\ FromSource(idx) = {}

\* C12: the flag ollama_available is set only for the Ollama URL that the
\* successful check probed, and every request of the Summarizer client goes to
\* the completion endpoint of that URL.
C12_RequestsGoToVerifiedEndpoint ==
  /\ ollama_available => verified_url = ollama_url
  /\ SummarizerCalled(last) =>
       \A i \in 1..Len(last.http) : last.http[i].url = verified_url \o "/api/generate"

====
